---- MODULE Spec2Model ----
(***************************************************************************)
(* Model of the menu administration screen (MenuManagement) and of the     *)
(* storefront screen (Menu).                                               *)
(*                                                                         *)
(* The remote data client is a set of tables; every remote call is a       *)
(* request that is first served (the table is read or written and a        *)
(* response is put in flight) and later received by the async function     *)
(* that awaits it.  A response is "ok", "err" (the client resolves with    *)
(* {data: null, error}) or "throw" (the awaited promise rejects).          *)
(***************************************************************************)
EXTENDS Integers, Sequences, FiniteSets, TLC

(* ------------------------------ bounds --------------------------------- *)
\* number of submits and of deletes the user starts
MaxSubmits == 1
MaxDeletes == 1
\* storefront: largest quantity cap, longest order history, largest line quantity,
\* number of re-renders after the query settled
MaxCap == 3
MaxOrderItems == 2
MaxQty == 2
MaxRenders == 2

(* --------------------------- value universe ---------------------------- *)
\* a null string column / a missing optional field
NULL == "NULL"
\* parseFloat of malformed text; serialised to a null price by the client
NaN == -1
\* no image reference (undefined / null); image references are paths
NoImage == <<>>
\* no selected File; a File is its name split at '.'
NoFile == <<>>
Files == {<<"photo", "png">>}

SessionUser == "u1"
\* vendors table: user_id -> id
VendorOf(user) == IF user = "u1" THEN "v1" ELSE "v2"

\* lexical order of the category labels
CategoryRank(c) == CASE c = "drink" -> 1 [] c = "main" -> 2 [] OTHER -> 0

NoItem ==
  [id |-> "", vendor_id |-> "", name |-> "", name_ko |-> NULL, description |-> NULL,
   description_ko |-> NULL, price |-> 0, category |-> "", is_available |-> TRUE,
   image |-> NoImage]

SeedRows ==
  { [NoItem EXCEPT !.id = "a", !.vendor_id = "v1", !.name = "Bibimbap", !.price = 12,
                   !.category = "main", !.image = <<"seed", "jpg">>],
    [NoItem EXCEPT !.id = "b", !.vendor_id = "v1", !.name = "Tea", !.name_ko = "cha",
                   !.price = 3, !.category = "drink"],
    [NoItem EXCEPT !.id = "c", !.vendor_id = "v2", !.name = "Ramen", !.price = 9,
                   !.category = "main"] }

(* ----------------------------- form state ------------------------------ *)
EmptyForm ==
  [name |-> "", name_ko |-> "", description |-> "", description_ko |-> "",
   price |-> "", category |-> "", is_available |-> TRUE]

\* what the user types into the form
FormInputs ==
  { [name |-> "Soda", name_ko |-> "", description |-> "cold", description_ko |-> "",
     price |-> "5", category |-> "drink", is_available |-> FALSE] }

\* parseFloat(formData.price)
ParseFloat(t) ==
  CASE t = "3" -> 3 [] t = "5" -> 5 [] t = "9" -> 9 [] t = "12" -> 12 [] OTHER -> NaN

\* value || null
OrNull(s) == IF s = "" THEN NULL ELSE s
\* value || ''
OrEmpty(s) == IF s = NULL THEN "" ELSE s

(* ------------------------------ messages ------------------------------- *)
ToastLoadFailed == "Failed to load menu items"
ToastSaveFailed == "Failed to save menu item"
ToastDeleteFailed == "Failed to delete menu item"
ToastUpdated == "Menu item updated successfully"
ToastAdded == "Menu item added successfully"
ToastDeleted == "Menu item deleted successfully"

Messages == {ToastLoadFailed, ToastSaveFailed, ToastDeleteFailed, ToastUpdated,
             ToastAdded, ToastDeleted}
\* toast({description: m}) on the notifications shown so far
Toast(shown, m) == [shown EXCEPT ![m] = @ + 1]

Outcomes == {"ok", "err", "throw"}

VARIABLES
  remote,        \* menu_items table
  storage,       \* objects of the menu_items bucket
  menuItems, loading, isDialogOpen, editingItem, selectedImage, formData,
  toasts,        \* notifications surfaced by the administration screen
  procs,         \* async functions in flight, in the order they were called
  nextPid, submits, deletes, uuids, inserted,
  imagePicked,   \* history: setSelectedImage was called since Add Item / Edit
  failed,        \* history: some remote call was answered with an error
  sfRows,        \* storefront: menu_items joined with order_items and orders
  sfStatus,      \* storefront: state of the 'menu-items' query
  sfData,        \* storefront: the query's data
  sfToasts,      \* storefront: failure notifications surfaced
  sfRenders      \* storefront: re-renders since the query settled

adminVars == <<remote, storage, menuItems, loading, isDialogOpen, editingItem,
               selectedImage, formData, toasts, procs, nextPid, submits, deletes, uuids, inserted,
               imagePicked, failed>>
storeVars == <<sfRows, sfStatus, sfData, sfToasts, sfRenders>>
vars == <<adminVars, storeVars>>

(* ------------------------------ helpers -------------------------------- *)
Range(s) == {s[i] : i \in 1..Len(s)}
RemoveAt(s, i) == SubSeq(s, 1, i - 1) \o SubSeq(s, i + 1, Len(s))
Pids(ps) == {ps[i].pid : i \in 1..Len(ps)}

NewProc(kind, pc, cause) ==
  [pid |-> nextPid, kind |-> kind, pc |-> pc, cause |-> cause, resp |-> "none",
   vendor |-> "", editing |-> NoItem, image |-> NoFile, form |-> EmptyForm,
   filePath |-> NoImage, imageUrl |-> NoImage, itemId |-> "", data |-> <<>>]


Last(s) == s[Len(s)]
IsSorted(s) == \A i \in 1..(Len(s) - 1) : CategoryRank(s[i].category) <= CategoryRank(s[i + 1].category)
SeqsOf(S) == {s \in [1..Cardinality(S) -> S] : Range(s) = S}

\* from('menu_items').select('*').eq('vendor_id', v).order('category', ascending):
\* the possible results; rows of one category come in an order the store picks
\* variant: the vendor filter is missing
SelectMenuItemsAnyVendor(table, v) ==
  {s \in SeqsOf(table) : IsSorted(s)}

SelectMenuItems(table, v) ==
  {s \in SeqsOf({r \in table : r.vendor_id = v}) : IsSorted(s)}

\* handleImageUpload: `${crypto.randomUUID()}.${file.name.split('.').pop()}`
FilePath(file, n) == <<"uuid" \o ToString(n), Last(file)>>
\* storage.from('menu_items').getPublicUrl(filePath)
PublicUrl(path) == <<"public", "menu_items">> \o path

\* the row handleSubmit sends
MenuItemData(p) ==
  [vendor_id |-> p.vendor,
   name |-> p.form.name,
   name_ko |-> OrNull(p.form.name_ko),
   description |-> OrNull(p.form.description),
   description_ko |-> OrNull(p.form.description_ko),
   price |-> ParseFloat(p.form.price),
   category |-> p.form.category,
   is_available |-> p.form.is_available,
   image |-> p.imageUrl]

WithId(d, id) ==
  [id |-> id, vendor_id |-> d.vendor_id, name |-> d.name, name_ko |-> d.name_ko,
   description |-> d.description, description_ko |-> d.description_ko,
   price |-> d.price, category |-> d.category, is_available |-> d.is_available,
   image |-> d.image]

\* resetForm()
ResetForm == EmptyForm

\* handleEdit's setFormData argument
FormOf(item) ==
  [name |-> item.name,
   name_ko |-> OrEmpty(item.name_ko),
   description |-> OrEmpty(item.description),
   description_ko |-> OrEmpty(item.description_ko),
   price |-> ToString(item.price),
   category |-> item.category,
   is_available |-> item.is_available]

(* ------------------------------- Init ---------------------------------- *)
StoreIdle ==
  /\ sfRows = <<>>
  /\ sfStatus = "loading"
  /\ sfData = <<>>
  /\ sfToasts = 0
  /\ sfRenders = 0

\* state after construction; the mount effect has called loadMenuItems()
Init ==
  /\ remote = SeedRows
  /\ storage = {}
  /\ menuItems = <<>>
  /\ loading = TRUE
  /\ isDialogOpen = FALSE
  /\ editingItem = NoItem
  /\ selectedImage = NoFile
  /\ formData = EmptyForm
  /\ toasts = [m \in Messages |-> 0]
  /\ procs = <<[pid |-> 1, kind |-> "load", pc |-> "vendor", cause |-> "mount",
                resp |-> "none", vendor |-> "", editing |-> NoItem, image |-> NoFile,
                form |-> EmptyForm, filePath |-> NoImage, imageUrl |-> NoImage,
                itemId |-> "", data |-> <<>>]>>
  /\ nextPid = 2
  /\ submits = 0
  /\ deletes = 0
  /\ uuids = 0
  /\ inserted = 0
  /\ imagePicked = FALSE
  /\ failed = FALSE
  /\ StoreIdle

uiVars == <<menuItems, loading, isDialogOpen, editingItem, selectedImage, formData>>
counters == <<nextPid, submits, deletes, uuids, inserted>>

(* ------------------------- the remote service -------------------------- *)
Awaiting(i, kind, pc) ==
  /\ i \in 1..Len(procs)
  /\ procs[i].kind = kind
  /\ procs[i].pc = pc
  /\ procs[i].resp = "none"

Received(i, kind, pc) ==
  /\ i \in 1..Len(procs)
  /\ procs[i].kind = kind
  /\ procs[i].pc = pc
  /\ procs[i].resp # "none"

ServeItems(i) ==
  /\ Awaiting(i, "load", "items")
  /\ \/ /\ \E d \in SelectMenuItems(remote, procs[i].vendor) :
             procs' = [procs EXCEPT ![i].resp = "ok", ![i].data = d]
        /\ UNCHANGED failed
     \/ /\ \E o \in {"err", "throw"} : procs' = [procs EXCEPT ![i].resp = o]
        /\ failed' = TRUE
  /\ UNCHANGED <<remote, storage, uiVars, toasts, counters, imagePicked, storeVars>>

\* from('menu_items').update(menuItemData).eq('id', editingItem.id)
UpdateRows(table, id, d) ==
  {IF r.id = id THEN WithId(d, r.id) ELSE r : r \in table}
\* from('menu_items').insert([menuItemData])
InsertRow(table, d, n) == table \cup {WithId(d, "n" \o ToString(n))}

ServeWrite(i) ==
  /\ Awaiting(i, "submit", "write")
  /\ \E o \in Outcomes :
       /\ procs' = [procs EXCEPT ![i].resp = o]
       /\ failed' = (failed \/ o # "ok")
       /\ IF o # "ok"
            THEN UNCHANGED <<remote, inserted>>
            ELSE IF procs[i].editing # NoItem
              THEN /\ remote' = UpdateRows(remote, procs[i].editing.id, MenuItemData(procs[i]))
                   /\ UNCHANGED inserted
              ELSE /\ remote' = InsertRow(remote, MenuItemData(procs[i]), inserted + 1)
                   /\ inserted' = inserted + 1
  /\ UNCHANGED <<storage, uiVars, toasts, nextPid, submits, deletes, uuids, imagePicked,
                 storeVars>>

\* from('menu_items').delete().eq('id', itemId)
ServeDelete(i) ==
  /\ Awaiting(i, "delete", "delete")
  /\ \E o \in Outcomes :
       /\ procs' = [procs EXCEPT ![i].resp = o]
       /\ failed' = (failed \/ o # "ok")
       /\ remote' = IF o = "ok" THEN {r \in remote : r.id # procs[i].itemId} ELSE remote
  /\ UNCHANGED <<storage, uiVars, toasts, counters, imagePicked, storeVars>>


(* ------------------------- loadMenuItems ------------------------------- *)
\* catch block of loadMenuItems followed by its finally block
LoadCatch(i) ==
  /\ toasts' = Toast(toasts, ToastLoadFailed)
  /\ loading' = FALSE
  /\ procs' = RemoveAt(procs, i)
  /\ UNCHANGED <<menuItems, isDialogOpen, editingItem, selectedImage, formData>>

\* the vendor lookup (from('vendors').select('id').eq('user_id', ...).single())
\* resolved with a row, resolved with {data: null, error}, or rejected
LoadVendorDone(i) ==
  /\ Awaiting(i, "load", "vendor")
  /\ \E o \in Outcomes :
     /\ failed' = (failed \/ o # "ok")
     /\ CASE o = "ok" ->
            \* if (vendorData): issue the menu_items query
            /\ procs' = [procs EXCEPT ![i].pc = "items",
                                      ![i].vendor = VendorOf(SessionUser)]
            /\ UNCHANGED <<uiVars, toasts>>
       [] o = "err" ->
            \* vendorData is null: the body is skipped, finally runs
            /\ loading' = FALSE
            /\ procs' = RemoveAt(procs, i)
            /\ UNCHANGED <<menuItems, isDialogOpen, editingItem, selectedImage,
                           formData, toasts>>
       [] OTHER -> LoadCatch(i)
  /\ UNCHANGED <<remote, storage, counters, imagePicked, storeVars>>

\* setMenuItems(data || []) with the response of the menu_items query
LoadedItems(p) == IF p.resp = "ok" THEN p.data ELSE <<>>

LoadItemsDone(i) ==
  /\ Received(i, "load", "items")
  /\ IF procs[i].resp = "throw"
       THEN LoadCatch(i)
       ELSE /\ menuItems' = LoadedItems(procs[i])
            /\ loading' = FALSE
            /\ procs' = RemoveAt(procs, i)
            /\ UNCHANGED <<isDialogOpen, editingItem, selectedImage, formData, toasts>>
  /\ UNCHANGED <<remote, storage, counters, imagePicked, failed, storeVars>>

(* --------------------------- handleSubmit ------------------------------ *)
\* the form's onSubmit; the closure holds the render's editingItem,
\* selectedImage and formData
HandleSubmit ==
  /\ ~loading
  /\ isDialogOpen
  /\ submits < MaxSubmits
  /\ procs' = Append(procs, [NewProc("submit", "vendor", "user") EXCEPT
                               !.editing = editingItem,
                               !.image = selectedImage,
                               !.form = formData])
  /\ nextPid' = nextPid + 1
  /\ submits' = submits + 1
  /\ UNCHANGED <<remote, storage, uiVars, toasts, deletes, uuids, inserted, imagePicked,
                 failed, storeVars>>

\* variant: the catch block also closes and resets the form
SubmitCatchClosing(i) ==
  /\ toasts' = Toast(toasts, ToastSaveFailed)
  /\ procs' = RemoveAt(procs, i)
  /\ isDialogOpen' = FALSE
  /\ formData' = ResetForm
  /\ UNCHANGED <<menuItems, loading, editingItem, selectedImage, nextPid>>

\* catch block of handleSubmit
SubmitCatch(i) ==
  /\ toasts' = Toast(toasts, ToastSaveFailed)
  /\ procs' = RemoveAt(procs, i)
  /\ UNCHANGED <<uiVars, nextPid>>

\* let imageUrl = editingItem?.image
KeptImage(p) == p.editing.image

SubmitVendorDone(i) ==
  /\ Awaiting(i, "submit", "vendor")
  /\ \E o \in Outcomes :
     /\ failed' = (failed \/ o # "ok")
     /\ IF o # "ok"
       THEN \* throw new Error('Vendor not found'), or the lookup rejected
            /\ SubmitCatch(i)
            /\ UNCHANGED uuids
       ELSE IF procs[i].image # NoFile
         THEN \* handleImageUpload(selectedImage) up to its await
              /\ procs' = [procs EXCEPT ![i].pc = "upload",
                                        ![i].vendor = VendorOf(SessionUser),
                                        ![i].filePath = FilePath(procs[i].image, uuids + 1)]
              /\ uuids' = uuids + 1
              /\ UNCHANGED <<uiVars, toasts, nextPid>>
         ELSE /\ procs' = [procs EXCEPT ![i].pc = "write",
                                        ![i].vendor = VendorOf(SessionUser),
                                        ![i].imageUrl = KeptImage(procs[i])]
              /\ UNCHANGED <<uiVars, toasts, nextPid, uuids>>
  /\ UNCHANGED <<remote, storage, submits, deletes, inserted, imagePicked, storeVars>>

\* storage.from('menu_items').upload(filePath, file) answered
SubmitUploadDone(i) ==
  /\ Awaiting(i, "submit", "upload")
  /\ \E o \in Outcomes :
     /\ failed' = (failed \/ o # "ok")
     /\ IF o # "ok"
       THEN \* handleImageUpload rethrows
            /\ SubmitCatch(i)
            /\ UNCHANGED storage
       ELSE /\ storage' = storage \cup {procs[i].filePath}
            /\ procs' = [procs EXCEPT ![i].pc = "write",
                                      ![i].imageUrl = PublicUrl(procs[i].filePath)]
            /\ UNCHANGED <<uiVars, toasts, nextPid>>
  /\ UNCHANGED <<remote, submits, deletes, uuids, inserted, imagePicked, storeVars>>

\* variant: the selected image is not cleared
SubmitSuccessKeepsImage(i) ==
  /\ toasts' = Toast(toasts, IF procs[i].editing # NoItem THEN ToastUpdated ELSE ToastAdded)
  /\ isDialogOpen' = FALSE
  /\ editingItem' = NoItem
  /\ formData' = ResetForm
  /\ procs' = Append(RemoveAt(procs, i), NewProc("load", "vendor", "submit"))
  /\ nextPid' = nextPid + 1
  /\ UNCHANGED <<menuItems, loading, selectedImage>>

\* lines after `if (error) throw error` of handleSubmit
SubmitSuccess(i) ==
  /\ toasts' = Toast(toasts, IF procs[i].editing # NoItem THEN ToastUpdated ELSE ToastAdded)
  /\ isDialogOpen' = FALSE
  /\ editingItem' = NoItem
  /\ selectedImage' = NoFile
  /\ formData' = ResetForm
  /\ procs' = Append(RemoveAt(procs, i), NewProc("load", "vendor", "submit"))
  /\ nextPid' = nextPid + 1
  /\ UNCHANGED <<menuItems, loading>>

SubmitWriteDone(i) ==
  /\ Received(i, "submit", "write")
  /\ IF procs[i].resp = "ok" THEN SubmitSuccess(i) ELSE SubmitCatch(i)
  /\ UNCHANGED <<remote, storage, submits, deletes, uuids, inserted, imagePicked, failed,
                 storeVars>>

(* --------------------------- handleDelete ------------------------------ *)
HandleDelete(itemId) ==
  /\ ~loading
  /\ ~isDialogOpen
  /\ deletes < MaxDeletes
  /\ procs' = Append(procs, [NewProc("delete", "delete", "user") EXCEPT !.itemId = itemId])
  /\ nextPid' = nextPid + 1
  /\ deletes' = deletes + 1
  /\ UNCHANGED <<remote, storage, uiVars, toasts, submits, uuids, inserted, imagePicked,
                 failed, storeVars>>

DeleteDone(i) ==
  /\ Received(i, "delete", "delete")
  /\ IF procs[i].resp = "ok"
       THEN /\ toasts' = Toast(toasts, ToastDeleted)
            /\ procs' = Append(RemoveAt(procs, i),
                               [NewProc("load", "vendor", "delete") EXCEPT
                                  !.itemId = procs[i].itemId])
            /\ nextPid' = nextPid + 1
       ELSE /\ toasts' = Toast(toasts, ToastDeleteFailed)
            /\ procs' = RemoveAt(procs, i)
            /\ UNCHANGED nextPid
  /\ UNCHANGED <<remote, storage, uiVars, submits, deletes, uuids, inserted, imagePicked,
                 failed, storeVars>>

(* ------------------------------ the UI --------------------------------- *)
\* While loading the component renders only "Loading...".  The Dialog is modal:
\* the grid and the Add Item button cannot be reached while it is open.
\* handleEdit(item); item.price.toString() throws on a null price, after
\* setEditingItem(item) was called
HandleEdit(item) ==
  /\ ~loading
  /\ ~isDialogOpen
  /\ editingItem' = item
  /\ IF item.price = NaN
       THEN UNCHANGED <<formData, isDialogOpen>>
       ELSE /\ formData' = FormOf(item)
            /\ isDialogOpen' = TRUE
  /\ imagePicked' = FALSE
  /\ UNCHANGED <<remote, storage, menuItems, loading, selectedImage, toasts, procs,
                 counters, failed, storeVars>>

\* the Add Item button, a DialogTrigger
AddItem ==
  /\ ~loading
  /\ ~isDialogOpen
  /\ editingItem' = NoItem
  /\ formData' = ResetForm
  /\ selectedImage' = NoFile
  /\ isDialogOpen' = TRUE
  /\ imagePicked' = FALSE
  /\ UNCHANGED <<remote, storage, menuItems, loading, toasts, procs, counters, failed,
                 storeVars>>

\* onOpenChange(false): the dialog is dismissed
CloseDialog ==
  /\ ~loading
  /\ isDialogOpen
  /\ isDialogOpen' = FALSE
  /\ UNCHANGED <<remote, storage, menuItems, loading, editingItem, selectedImage,
                 formData, toasts, procs, counters, imagePicked, failed, storeVars>>

\* MenuItemForm calls setFormData
SetFormData(f) ==
  /\ ~loading
  /\ isDialogOpen
  /\ formData' = f
  /\ UNCHANGED <<remote, storage, menuItems, loading, isDialogOpen, editingItem,
                 selectedImage, toasts, procs, counters, imagePicked, failed, storeVars>>

\* MenuItemForm calls setSelectedImage
SetSelectedImage(file) ==
  /\ ~loading
  /\ isDialogOpen
  /\ selectedImage' = file
  /\ imagePicked' = TRUE
  /\ UNCHANGED <<remote, storage, menuItems, loading, isDialogOpen, editingItem,
                 formData, toasts, procs, counters, failed, storeVars>>

Next ==
  \/ \E i \in 1..Len(procs) : ServeItems(i)
  \/ \E i \in 1..Len(procs) : ServeWrite(i)
  \/ \E i \in 1..Len(procs) : ServeDelete(i)
  \/ \E i \in 1..Len(procs) : LoadVendorDone(i)
  \/ \E i \in 1..Len(procs) : LoadItemsDone(i)
  \/ HandleSubmit
  \/ \E i \in 1..Len(procs) : SubmitVendorDone(i)
  \/ \E i \in 1..Len(procs) : SubmitUploadDone(i)
  \/ \E i \in 1..Len(procs) : SubmitWriteDone(i)
  \/ \E item \in Range(menuItems) : HandleDelete(item.id)
  \/ \E i \in 1..Len(procs) : DeleteDone(i)
  \/ \E item \in Range(menuItems) : HandleEdit(item)
  \/ AddItem
  \/ CloseDialog
  \/ \E f \in FormInputs : SetFormData(f)
  \/ \E file \in Files : SetSelectedImage(file)

Spec == Init /\ [][Next]_vars


(***************************************************************************)
(* The storefront screen (Menu)                                            *)
(***************************************************************************)
\* item.quantity === null: no cap; also remainingQuantity: null
NoCap == -1
Placeholder == "/placeholder.svg"
\* orders.status; NULL is an order item whose order is missing
Statuses == {"pending", "completed", "cancelled", NULL}

OrderItems == [quantity : 1..MaxQty, status : Statuses]
OrderLists == UNION {[1..n -> OrderItems] : n \in 0..MaxOrderItems}
Caps == {NoCap} \cup 0..MaxCap

\* rows of menu_items with their embedded order_items (an embedded to-many
\* relation is always an array, possibly empty)
StoreRows ==
  { <<[id |-> "x", quantity |-> cap, order_items |-> ois, description |-> NULL,
       image |-> NULL, is_available |-> av],
      [id |-> "y", quantity |-> NoCap,
       order_items |-> <<[quantity |-> 1, status |-> "completed"]>>,
       description |-> "tea", image |-> "y.png", is_available |-> TRUE]>> :
      cap \in Caps, ois \in OrderLists, av \in BOOLEAN }

\* item.order_items.reduce((sum, orderItem) => ..., 0) from position i on
RECURSIVE ReduceOrdered(_, _, _)
ReduceOrdered(ois, i, sum) ==
  IF i > Len(ois)
    THEN sum
    ELSE ReduceOrdered(ois, i + 1,
           IF ois[i].status = "completed" \/ ois[i].status = "pending"
             THEN sum + ois[i].quantity
             ELSE sum)

\* variant: every order item counts, whatever its order's status
TotalOrderedAnyStatus(item) ==
  ReduceOrdered([i \in 1..Len(item.order_items) |->
                   [item.order_items[i] EXCEPT !.status = "completed"]], 1, 0)

TotalOrdered(item) == ReduceOrdered(item.order_items, 1, 0)

Max(a, b) == IF a >= b THEN a ELSE b

RemainingQuantity(item) ==
  IF item.quantity # NoCap
    THEN Max(0, item.quantity - TotalOrdered(item))
    ELSE NoCap

\* the record items.map builds
Present(item) ==
  [id |-> item.id,
   description |-> OrEmpty(item.description),
   image |-> IF item.image = NULL THEN Placeholder ELSE item.image,
   remainingQuantity |-> RemainingQuantity(item)]

\* .eq('is_available', true)
Available(rows) == SelectSeq(rows, LAMBDA r : r.is_available)

\* the success path of queryFn
QueryData(rows) ==
  LET items == Available(rows)
  IN  IF Len(items) = 0 THEN <<>> ELSE [i \in 1..Len(items) |-> Present(items[i])]

\* the body of Menu up to its return, run on every render
RenderToasts(status, shown) == IF status = "error" THEN shown + 1 ELSE shown

AdminIdle ==
  /\ remote = SeedRows
  /\ storage = {}
  /\ menuItems = <<>>
  /\ loading = TRUE
  /\ isDialogOpen = FALSE
  /\ editingItem = NoItem
  /\ selectedImage = NoFile
  /\ formData = EmptyForm
  /\ toasts = [m \in Messages |-> 0]
  /\ procs = <<>>
  /\ nextPid = 1
  /\ submits = 0
  /\ deletes = 0
  /\ uuids = 0
  /\ inserted = 0
  /\ imagePicked = FALSE
  /\ failed = FALSE

\* the storefront mounted; its query is in flight
StoreInit ==
  /\ AdminIdle
  /\ sfRows \in StoreRows
  /\ sfStatus = "loading"
  /\ sfData = <<>>
  /\ sfToasts = 0
  /\ sfRenders = 0

\* queryFn resolved; the component renders with the data
QueryResolved ==
  /\ sfStatus = "loading"
  /\ sfStatus' = "success"
  /\ sfData' = QueryData(sfRows)
  /\ sfToasts' = RenderToasts("success", sfToasts)
  /\ UNCHANGED <<sfRows, sfRenders, adminVars>>

\* queryFn threw the error of the response; the component renders with it
QueryFailed ==
  /\ sfStatus = "loading"
  /\ sfStatus' = "error"
  /\ sfToasts' = RenderToasts("error", sfToasts)
  /\ UNCHANGED <<sfRows, sfData, sfRenders, adminVars>>

\* the language or the cart context changed and Menu renders again
Rerender ==
  /\ sfStatus # "loading"
  /\ sfRenders < MaxRenders
  /\ sfRenders' = sfRenders + 1
  /\ sfToasts' = RenderToasts(sfStatus, sfToasts)
  /\ UNCHANGED <<sfRows, sfStatus, sfData, adminVars>>

StoreNext ==
  \/ QueryResolved
  \/ QueryFailed
  \/ Rerender

StoreSpec == StoreInit /\ [][StoreNext]_vars


(***************************************************************************)
(* Properties                                                              *)
(***************************************************************************)
Ids(rows) == {r.id : r \in rows}
VendorRows == {r \in remote : r.vendor_id = VendorOf(SessionUser)}
Loads == {i \in 1..Len(procs) : procs[i].kind = "load"}
\* the async function procs[i] returns in this step
Returns(i) == procs[i].pid \notin Pids(procs')
\* a load's fetch failed and the load returns
LoadFails(i) ==
  /\ procs[i].kind = "load"
  /\ Returns(i)
  /\ procs[i].pc = "vendor" \/ procs[i].resp \in {"err", "throw"}
\* a submit failed at one of its steps and returns
SubmitFails(i) ==
  /\ procs[i].kind = "submit"
  /\ Returns(i)
  /\ procs[i].pc \in {"vendor", "upload"} \/ procs[i].resp \in {"err", "throw"}
SubmitSucceeds(i) ==
  /\ procs[i].kind = "submit"
  /\ Returns(i)
  /\ procs[i].pc = "write"
  /\ procs[i].resp = "ok"
NewLoads == {j \in 1..Len(procs') : procs'[j].kind = "load" /\ procs'[j].pid \notin Pids(procs)}

RECURSIVE SumQuantities(_, _)
SumQuantities(ois, S) ==
  IF S = {} THEN 0
  ELSE LET i == CHOOSE j \in S : TRUE
       IN  ois[i].quantity + SumQuantities(ois, S \ {i})
\* the quantities on pending and completed orders, summed
Consumed(ois) ==
  SumQuantities(ois, {i \in 1..Len(ois) : ois[i].status \in {"pending", "completed"}})

\* C1: every available item the storefront fetch returned is presented with a
\* remaining quantity that is null when its cap is null and otherwise
\* max(0, cap - S), S summing the order items on pending or completed orders only.
C1_RemainingQuantity ==
  sfStatus = "success" =>
    LET items == SelectSeq(sfRows, LAMBDA r : r.is_available)
    IN  /\ Len(sfData) = Len(items)
        /\ \A i \in 1..Len(items) :
             /\ sfData[i].id = items[i].id
             /\ sfData[i].remainingQuantity =
                  IF items[i].quantity = NoCap
                    THEN NoCap
                    ELSE IF items[i].quantity - Consumed(items[i].order_items) > 0
                           THEN items[i].quantity - Consumed(items[i].order_items)
                           ELSE 0

\* a capped item with a pending and a cancelled order item was presented, and
\* only the pending quantity was subtracted
C1_Witness ==
  /\ sfStatus = "success"
  /\ Len(sfData) = 2
  /\ sfRows[1].quantity = 3
  /\ sfRows[1].order_items = <<[quantity |-> 2, status |-> "pending"],
                              [quantity |-> 2, status |-> "cancelled"]>>
  /\ sfData[1].remainingQuantity = 1
  /\ sfData[2].remainingQuantity = NoCap

\* C5: the response of a load's menu_items query holds exactly the remote items of
\* the session user's vendor, ordered by category ascending, and the list the
\* screen displays when the load completes is that response.
C5_LoadShowsVendorItems ==
  [][\A i \in 1..Len(procs) :
       /\ (/\ procs[i].kind = "load"
           /\ procs[i].pc = "items"
           /\ procs[i].resp = "none")
          => \A j \in 1..Len(procs') :
               (procs'[j].pid = procs[i].pid /\ procs'[j].resp = "ok")
               => /\ Range(procs'[j].data) = VendorRows
                  /\ Len(procs'[j].data) = Cardinality(VendorRows)
                  /\ \A a, b \in 1..Len(procs'[j].data) :
                       a < b => CategoryRank(procs'[j].data[a].category)
                                  <= CategoryRank(procs'[j].data[b].category)
       /\ (procs[i].kind = "load" /\ procs[i].resp = "ok" /\ Returns(i))
          => menuItems' = procs[i].data]_vars

\* a load completed and displays the vendor's two items, drink before main,
\* while the table holds another vendor's item
C5_Witness ==
  /\ ~loading
  /\ procs = <<>>
  /\ Len(menuItems) = 2
  /\ menuItems[1].category = "drink"
  /\ menuItems[2].category = "main"
  /\ Range(menuItems) = VendorRows
  /\ \E r \in remote : r.vendor_id # VendorOf(SessionUser)

\* C6: a submit that fails (no vendor, upload failed, insert/update rejected)
\* surfaces one 'Failed to save menu item' notification and changes nothing else:
\* dialog, form data, edit state, selected image and list stay, no reload is issued.
C6_FailedSubmitKeepsDialog ==
  [][\A i \in 1..Len(procs) :
       SubmitFails(i)
       => /\ toasts' = [toasts EXCEPT ![ToastSaveFailed] = @ + 1]
          /\ isDialogOpen' = isDialogOpen
          /\ formData' = formData
          /\ editingItem' = editingItem
          /\ selectedImage' = selectedImage
          /\ menuItems' = menuItems
          /\ NewLoads = {}
          /\ Len(procs') = Len(procs) - 1]_vars

\* an update whose upload succeeded was rejected: one notification, the dialog
\* still open on the edited item with the typed data and the selected file
C6_Witness ==
  /\ toasts[ToastSaveFailed] = 1
  /\ storage # {}
  /\ procs = <<>>
  /\ isDialogOpen
  /\ editingItem # NoItem
  /\ formData \in FormInputs
  /\ selectedImage # NoFile

\* C7: a submit that succeeded at the remote store closes the form, clears the
\* edit state and the selected image, resets every form field and issues a reload.
C7_SuccessfulSubmitResets ==
  [][\A i \in 1..Len(procs) :
       SubmitSucceeds(i)
       => /\ isDialogOpen' = FALSE
          /\ editingItem' = NoItem
          /\ selectedImage' = NoFile
          /\ formData' = [name |-> "", name_ko |-> "", description |-> "",
                          description_ko |-> "", price |-> "", category |-> "",
                          is_available |-> TRUE]
          /\ Cardinality(NewLoads) = 1
          /\ \A j \in NewLoads : procs'[j].pc = "vendor" /\ procs'[j].resp = "none"]_vars

\* an update with a newly selected image succeeded: the form is closed and
\* reset and the reload is in flight
C7_Witness ==
  /\ toasts[ToastUpdated] = 1
  /\ storage # {}
  /\ ~isDialogOpen
  /\ editingItem = NoItem
  /\ selectedImage = NoFile
  /\ formData = EmptyForm
  /\ \E i \in Loads : procs[i].cause = "submit"


\* C2: an update submitted for an existing item, with no image file selected
\* since Edit entry opened the dialog, performs no upload and writes the image
\* reference the item had.
C2_EditKeepsImage ==
  [][/\ \A j \in 1..Len(procs') :
          (/\ procs'[j].pid \notin Pids(procs)
           /\ procs'[j].kind = "submit"
           /\ procs'[j].editing # NoItem
           /\ ~imagePicked)
          => procs'[j].image = NoFile
     /\ \A i \in 1..Len(procs) :
          (/\ procs[i].kind = "submit"
           /\ procs[i].editing # NoItem
           /\ procs[i].image = NoFile
           /\ procs[i].pc = "write"
           /\ procs[i].resp = "none"
           /\ \E j \in 1..Len(procs') :
                procs'[j].pid = procs[i].pid /\ procs'[j].resp = "ok")
          => /\ storage' = storage
             /\ \A r \in remote' :
                  r.id = procs[i].editing.id => r.image = procs[i].editing.image]_vars

\* C3: a load whose vendor lookup or menu_items query failed leaves
\* loading = false and surfaces exactly one 'Failed to load menu items' notification.
C3_FailedFetchNotifiesOnce ==
  [][\A i \in 1..Len(procs) :
       LoadFails(i)
       => /\ loading' = FALSE
          /\ toasts' = [toasts EXCEPT ![ToastLoadFailed] = @ + 1]]_vars

\* C4: once an item was deleted at the remote store and the reload the delete
\* triggers and every other load have completed, none of them with an error,
\* the displayed list does not contain the item's identifier.
C4_DeletedItemNotListed ==
  \A r \in SeedRows :
    (/\ r.id \notin Ids(remote)
     /\ \A i \in 1..Len(procs) : procs[i].kind \notin {"load", "delete"}
     /\ ~failed)
    => r.id \notin Ids(Range(menuItems))

\* C8: a rejected delete and a load whose vendor lookup or menu_items query
\* failed leave the displayed list as it was.
C8_FailureKeepsList ==
  [][\A i \in 1..Len(procs) :
       (\/ LoadFails(i)
        \/ /\ procs[i].kind = "delete"
           /\ Returns(i)
           /\ procs[i].resp \in {"err", "throw"})
       => menuItems' = menuItems]_vars

\* C9: at most one list fetch is outstanding at a time, and each was triggered
\* by mount or by a successful mutation.
C9_OneFetchOutstanding ==
  /\ Cardinality(Loads) <= 1
  /\ \A i \in Loads : procs[i].cause \in {"mount", "submit", "delete"}

\* C10: once every request has completed, none of them with an error, the
\* displayed list holds exactly the remote store's items of the vendor.
C10_SettledListIsCurrent ==
  (procs = <<>> /\ ~failed)
  => /\ Range(menuItems) = VendorRows
     /\ Len(menuItems) = Cardinality(VendorRows)

====
